---- MODULE Spec2Model ----
(***************************************************************************)
(* esobox, the Brainfuck back end (src/src/brainfuck/mod.rs) and the two   *)
(* ways the command line (src/src/main.rs) calls it.                       *)
(*                                                                         *)
(* run(source, input, output) first compiles the source into basic blocks  *)
(* (into_basic_blocks) and then walks the blocks against a tape of         *)
(* MEMORY_SIZE 8-bit cells.  One action models the compilation, one action *)
(* models each leaf instruction of the execution loop, and two actions     *)
(* model the branch taken at the end of a block.                           *)
(*                                                                         *)
(* Representation choices:                                                 *)
(*   - a source is a sequence of one-character strings;                    *)
(*   - Option<usize> is a sequence: <<>> is None and <<k>> is Some(k);     *)
(*   - block and instruction indices are 0-based as in the code, so the    *)
(*     block with index k is basic_blocks[k + 1];                          *)
(*   - the tape vec![0u8; MEMORY_SIZE] is kept sparsely: memory is a       *)
(*     function on the indices written so far, and a cell outside its      *)
(*     domain holds the initial 0 (see Cell);                              *)
(*   - result is <<>> while run has not returned, and otherwise the        *)
(*     returned value, or <<"Panic">> when run unwinds instead.            *)
(***************************************************************************)
EXTENDS Integers, Sequences, FiniteSets, TLC

VARIABLES
    source,        \* run's `source` argument
    inputKind,     \* which BufRead implementation `input` is
    input,         \* the bytes the input source holds
    inpos,         \* number of bytes of `input` consumed so far
    output,        \* the bytes written to the output sink
    pc,            \* "compile" (line 30), "exec" (the loop, lines 34-59), "done"
    result,        \* what run returned
    basic_blocks,  \* run's `basic_blocks`
    bb_no,         \* run's `bb_no`
    ip,            \* position of the `for &instr in instrs` iterator
    memory,        \* run's `memory`
    ptr,           \* run's `ptr`
    steps,         \* number of leaf instructions executed so far
    reads          \* history: the cell contents left by each ReadByte that
                   \* got a byte, in order

vars == <<source, inputKind, input, inpos, output, pc, result, basic_blocks,
          bb_no, ip, memory, ptr, steps, reads>>

---------------------------------------------------------------------------
(* Bounds of the model.                                                    *)

\* longest source explored by the full machine
MaxSrcLen == 4
\* longest source explored by the compiler alone
MaxNestLen == 6
\* most leaf instructions one run executes
MaxSteps == 260

---------------------------------------------------------------------------
(* Program constants.                                                      *)

MEMORY_SIZE == 65536

\* u8 arithmetic is modulo 2^8
U8Modulus == 256

\* usize::MAX + 1 is 2^32 or 2^64; the model keeps a usize by its low 30
\* bits, which is exact for every use in run: the only usize that leaves
\* 0..MEMORY_SIZE is the result of 0usize.wrapping_sub(1), which is reduced
\* modulo MEMORY_SIZE at once, and MEMORY_SIZE divides 2^30.
UsizeLowModulus == 1073741824

None == <<>>
Some(k) == <<k>>

---------------------------------------------------------------------------
(* Inputs.                                                                 *)

SeqsUpTo(S, n) == UNION {[1..k -> S] : k \in 0..n}

\* the eight commands and one character that is not a command
SrcChars == {"+", "-", "<", ">", ",", ".", "[", "]", "x"}

\* the brackets, two leaf commands and one character that is not a command
NestChars == {"[", "]", "+", ".", "x"}

Sources == SeqsUpTo(SrcChars, MaxSrcLen)

NestSources == SeqsUpTo(NestChars, MaxNestLen)

\* input streams: empty, one byte, and two streams of two distinct bytes
Inputs == {<<>>, <<255>>, <<10, 0>>, <<0, 255>>}

\* BufReader (tests, mod.rs:159; stdin().lock() of main.rs:57 behaves alike)
\* and the byte slice main.rs:48 passes (input.as_bytes())
InputKinds == {"BufReader", "Slice"}

---------------------------------------------------------------------------
(* The block compiler.                                                     *)

IsLeaf(c) == c \in {"+", "-", "<", ">", ",", "."}

CmdOf(c) ==
    CASE c = "+" -> "Inc"
      [] c = "-" -> "Dec"
      [] c = "<" -> "Left"
      [] c = ">" -> "Right"
      [] c = "," -> "Getc"
      [] c = "." -> "Putc"

BasicBlock(instrs, jz, jnz) == [instrs |-> instrs, jz |-> jz, jnz |-> jnz]

\* the locals of into_basic_blocks before the scan; err is "" until the
\* `?` of line 111 returns
ScanInit ==
    [bbno_stack |-> <<>>, basic_blocks |-> <<>>, cur_basic_block |-> <<>>,
     cur_bb_id |-> 0, err |-> ""]

ScanLeaf(st, c) ==
    [st EXCEPT !.cur_basic_block = Append(@, CmdOf(c))]

ScanOpen(st) ==
    [st EXCEPT
        !.basic_blocks = Append(@, BasicBlock(st.cur_basic_block, None,
                                              Some(st.cur_bb_id + 1))),
        !.bbno_stack = Append(@, st.cur_bb_id),
        !.cur_bb_id = @ + 1,
        !.cur_basic_block = <<>>]

\* mutant: the pending stack is read with last() and never popped
ScanCloseNoPop(st) ==
    IF st.bbno_stack = <<>>
    THEN [st EXCEPT !.err = "]"]
    ELSE LET n == Len(st.bbno_stack)
             popped == st.bbno_stack[n]
             pushed == Append(st.basic_blocks,
                              BasicBlock(st.cur_basic_block,
                                         Some(st.cur_bb_id + 1),
                                         Some(popped + 1)))
         IN [st EXCEPT
                !.basic_blocks =
                    [pushed EXCEPT ![popped + 1].jz = Some(st.cur_bb_id + 1)],
                !.cur_bb_id = @ + 1,
                !.cur_basic_block = <<>>]

\* mutant: a closing bracket on an empty pending stack is skipped
ScanCloseLenient(st) ==
    IF st.bbno_stack = <<>>
    THEN st
    ELSE LET n == Len(st.bbno_stack)
             popped == st.bbno_stack[n]
             pushed == Append(st.basic_blocks,
                              BasicBlock(st.cur_basic_block,
                                         Some(st.cur_bb_id + 1),
                                         Some(popped + 1)))
         IN [st EXCEPT
                !.bbno_stack = SubSeq(@, 1, n - 1),
                !.basic_blocks =
                    [pushed EXCEPT ![popped + 1].jz = Some(st.cur_bb_id + 1)],
                !.cur_bb_id = @ + 1,
                !.cur_basic_block = <<>>]

\* mutant: the closing block jumps back to the block of its `[` instead of
\* the block after it
ScanCloseJumpsToOpen(st) ==
    IF st.bbno_stack = <<>>
    THEN [st EXCEPT !.err = "]"]
    ELSE LET n == Len(st.bbno_stack)
             popped == st.bbno_stack[n]
             pushed == Append(st.basic_blocks,
                              BasicBlock(st.cur_basic_block,
                                         Some(st.cur_bb_id + 1),
                                         Some(popped)))
         IN [st EXCEPT
                !.bbno_stack = SubSeq(@, 1, n - 1),
                !.basic_blocks =
                    [pushed EXCEPT ![popped + 1].jz = Some(st.cur_bb_id + 1)],
                !.cur_bb_id = @ + 1,
                !.cur_basic_block = <<>>]

\* mutant: the zero target of `]` skips one block
ScanCloseSkipsBlock(st) ==
    IF st.bbno_stack = <<>>
    THEN [st EXCEPT !.err = "]"]
    ELSE LET n == Len(st.bbno_stack)
             popped == st.bbno_stack[n]
             pushed == Append(st.basic_blocks,
                              BasicBlock(st.cur_basic_block,
                                         Some(st.cur_bb_id + 2),
                                         Some(popped + 1)))
         IN [st EXCEPT
                !.bbno_stack = SubSeq(@, 1, n - 1),
                !.basic_blocks =
                    [pushed EXCEPT ![popped + 1].jz = Some(st.cur_bb_id + 2)],
                !.cur_bb_id = @ + 1,
                !.cur_basic_block = <<>>]

\* mutant: the jz of the popped block is not back-patched
ScanCloseNoBackpatch(st) ==
    IF st.bbno_stack = <<>>
    THEN [st EXCEPT !.err = "]"]
    ELSE LET n == Len(st.bbno_stack)
             popped == st.bbno_stack[n]
             pushed == Append(st.basic_blocks,
                              BasicBlock(st.cur_basic_block,
                                         Some(st.cur_bb_id + 1),
                                         Some(popped + 1)))
         IN [st EXCEPT
                !.bbno_stack = SubSeq(@, 1, n - 1),
                !.basic_blocks = pushed,
                !.cur_bb_id = @ + 1,
                !.cur_basic_block = <<>>]

ScanClose(st) ==
    IF st.bbno_stack = <<>>
    THEN [st EXCEPT !.err = "]"]
    ELSE LET n == Len(st.bbno_stack)
             popped == st.bbno_stack[n]
             pushed == Append(st.basic_blocks,
                              BasicBlock(st.cur_basic_block,
                                         Some(st.cur_bb_id + 1),
                                         Some(popped + 1)))
         IN [st EXCEPT
                !.bbno_stack = SubSeq(@, 1, n - 1),
                !.basic_blocks =
                    [pushed EXCEPT ![popped + 1].jz = Some(st.cur_bb_id + 1)],
                !.cur_bb_id = @ + 1,
                !.cur_basic_block = <<>>]

\* mutant: the catch-all arm keeps the character as an instruction
ScanCharKeepsOther(st, c) ==
    IF IsLeaf(c) THEN ScanLeaf(st, c)
    ELSE IF c = "[" THEN ScanOpen(st)
    ELSE IF c = "]" THEN ScanClose(st)
    ELSE [st EXCEPT !.cur_basic_block = Append(@, "Inc")]

ScanChar(st, c) ==
    IF IsLeaf(c) THEN ScanLeaf(st, c)
    ELSE IF c = "[" THEN ScanOpen(st)
    ELSE IF c = "]" THEN ScanClose(st)
    ELSE st

RECURSIVE ScanFrom(_, _, _)
ScanFrom(st, src, i) ==
    IF i > Len(src) \/ st.err # ""
    THEN st
    ELSE ScanFrom(ScanChar(st, src[i]), src, i + 1)

\* mutant: the pending stack is not looked at after the scan
ScanEndNoCheck(st) ==
    IF st.err # ""
    THEN [ok |-> FALSE, err |-> st.err, blocks |-> <<>>]
    ELSE [ok |-> TRUE, err |-> "",
          blocks |-> Append(st.basic_blocks,
                            BasicBlock(st.cur_basic_block, None, None))]

ScanEnd(st) ==
    IF st.err # ""
    THEN [ok |-> FALSE, err |-> st.err, blocks |-> <<>>]
    ELSE IF st.bbno_stack # <<>>
    THEN [ok |-> FALSE, err |-> "[", blocks |-> <<>>]
    ELSE [ok |-> TRUE, err |-> "",
          blocks |-> Append(st.basic_blocks,
                            BasicBlock(st.cur_basic_block, None, None))]

IntoBasicBlocks(src) == ScanEnd(ScanFrom(ScanInit, src, 1))

---------------------------------------------------------------------------
(* The input source and the output sink.                                   *)

Min(a, b) == IF a < b THEN a ELSE b

\* input.fill_buf() when it succeeds: the unread bytes
FillBuf(inp, pos) == SubSeq(inp, pos + 1, Len(inp))

\* BufRead::consume(amt) after a fill_buf that returned buflen bytes.
\* BufReader advances by min(amt, buflen).  The byte slice does
\* `*self = &self[amt..]`, which panics when amt exceeds its length.
Consume(kind, buflen, amt) ==
    IF kind = "Slice"
    THEN IF amt > buflen
         THEN [panic |-> TRUE, advance |-> 0]
         ELSE [panic |-> FALSE, advance |-> amt]
    ELSE [panic |-> FALSE, advance |-> Min(amt, buflen)]

\* the argument of input.consume(1), line 140
ConsumeAmount == 1

\* mutant: the byte is looked at and never consumed
getcNoConsume(kind, inp, pos) ==
    LET buf == FillBuf(inp, pos)
        value == IF buf = <<>> THEN None ELSE Some(buf[1])
    IN [panic |-> FALSE, value |-> value, pos |-> pos, requested |-> 0]

\* getc, lines 137-142, when fill_buf succeeds; requested is the amount
\* passed to consume
getc(kind, inp, pos) ==
    LET buf == FillBuf(inp, pos)
        value == IF buf = <<>> THEN None ELSE Some(buf[1])
        c == Consume(kind, Len(buf), ConsumeAmount)
    IN [panic |-> c.panic, value |-> value, pos |-> pos + c.advance,
        requested |-> ConsumeAmount]

\* putc, lines 144-147, when write_all succeeds
putc(out, byte) == Append(out, byte)

---------------------------------------------------------------------------
(* The tape machine.                                                       *)

Cell(mem, i) == IF i \in DOMAIN mem THEN mem[i] ELSE 0

SetCell(mem, i, v) ==
    [j \in (DOMAIN mem) \cup {i} |-> IF j = i THEN v ELSE mem[j]]

\* mutant: saturating_add in place of wrapping_add
SaturatingAdd1(v) == IF v = U8Modulus - 1 THEN v ELSE v + 1

WrappingAdd1(v) == (v + 1) % U8Modulus

WrappingSub1(v) == (v - 1) % U8Modulus

\* mutant: saturating_sub in place of wrapping_sub
MoveLeftSaturating(p) == (IF p = 0 THEN 0 ELSE p - 1) % MEMORY_SIZE

\* ptr.wrapping_sub(1) % MEMORY_SIZE
MoveLeft(p) == ((p - 1) % UsizeLowModulus) % MEMORY_SIZE

\* mutant: the index is not reduced modulo the tape length
MoveRightNoModulo(p) == p + 1

\* (ptr + 1) % MEMORY_SIZE
MoveRight(p) == (p + 1) % MEMORY_SIZE

CurBlock == basic_blocks[bb_no + 1]

AtInstr == pc = "exec" /\ ip < Len(CurBlock.instrs)

CurInstr == CurBlock.instrs[ip + 1]

AtBlockEnd == pc = "exec" /\ ip = Len(CurBlock.instrs)

Init ==
    /\ source \in Sources
    /\ inputKind \in InputKinds
    /\ input \in Inputs
    /\ inpos = 0
    /\ output = <<>>
    /\ pc = "compile"
    /\ result = <<>>
    /\ basic_blocks = <<>>
    /\ bb_no = 0
    /\ ip = 0
    /\ memory = <<>>
    /\ ptr = 0
    /\ steps = 0
    /\ reads = <<>>

\* mutant: the leaf commands are executed while the source is scanned, so
\* the `.` commands have written their (zero) cells when the error is found
CompileStreaming ==
    /\ pc = "compile"
    /\ LET r == IntoBasicBlocks(source)
           dots == Cardinality({i \in 1..Len(source) : source[i] = "."})
       IN IF r.ok
          THEN /\ basic_blocks' = r.blocks
               /\ pc' = "exec"
               /\ result' = result
               /\ output' = output
          ELSE /\ basic_blocks' = basic_blocks
               /\ pc' = "done"
               /\ result' = <<"SyntaxError", r.err>>
               /\ output' = [k \in 1..dots |-> 0]
    /\ bb_no' = 0
    /\ memory' = <<>>
    /\ ptr' = 0
    /\ ip' = 0
    /\ UNCHANGED <<source, inputKind, input, inpos, steps, reads>>

\* run, lines 30-33
Compile ==
    /\ pc = "compile"
    /\ LET r == IntoBasicBlocks(source)
       IN IF r.ok
          THEN /\ basic_blocks' = r.blocks
               /\ pc' = "exec"
               /\ result' = result
          ELSE /\ basic_blocks' = basic_blocks
               /\ pc' = "done"
               /\ result' = <<"SyntaxError", r.err>>
    /\ bb_no' = 0
    /\ memory' = <<>>
    /\ ptr' = 0
    /\ ip' = 0
    /\ UNCHANGED <<source, inputKind, input, inpos, output, steps, reads>>

\* Cmd::Inc, line 38
ExecInc ==
    /\ AtInstr /\ CurInstr = "Inc" /\ steps < MaxSteps
    /\ memory' = SetCell(memory, ptr, WrappingAdd1(Cell(memory, ptr)))
    /\ ip' = ip + 1
    /\ steps' = steps + 1
    /\ UNCHANGED <<source, inputKind, input, inpos, output, pc, result,
                   basic_blocks, bb_no, ptr, reads>>

\* Cmd::Dec, line 39
ExecDec ==
    /\ AtInstr /\ CurInstr = "Dec" /\ steps < MaxSteps
    /\ memory' = SetCell(memory, ptr, WrappingSub1(Cell(memory, ptr)))
    /\ ip' = ip + 1
    /\ steps' = steps + 1
    /\ UNCHANGED <<source, inputKind, input, inpos, output, pc, result,
                   basic_blocks, bb_no, ptr, reads>>

\* Cmd::Left, lines 40-42
ExecLeft ==
    /\ AtInstr /\ CurInstr = "Left" /\ steps < MaxSteps
    /\ ptr' = MoveLeft(ptr)
    /\ ip' = ip + 1
    /\ steps' = steps + 1
    /\ UNCHANGED <<source, inputKind, input, inpos, output, pc, result,
                   basic_blocks, bb_no, memory, reads>>

\* Cmd::Right, lines 43-45
ExecRight ==
    /\ AtInstr /\ CurInstr = "Right" /\ steps < MaxSteps
    /\ ptr' = MoveRight(ptr)
    /\ ip' = ip + 1
    /\ steps' = steps + 1
    /\ UNCHANGED <<source, inputKind, input, inpos, output, pc, result,
                   basic_blocks, bb_no, memory, reads>>

\* Cmd::Getc, lines 46-50, when input.fill_buf() fails (line 138): a byte
\* slice never fails, a BufReader fails when the reader under it does
ExecGetcIoError ==
    /\ AtInstr /\ CurInstr = "Getc" /\ steps < MaxSteps
    /\ inputKind = "BufReader"
    /\ pc' = "done"
    /\ result' = <<"IoError">>
    /\ UNCHANGED <<source, inputKind, input, inpos, output, basic_blocks,
                   bb_no, ip, memory, ptr, steps, reads>>

\* Cmd::Getc, lines 46-50, when input.fill_buf() succeeds
ExecGetc ==
    /\ AtInstr /\ CurInstr = "Getc" /\ steps < MaxSteps
    /\ LET g == getc(inputKind, input, inpos)
       IN IF g.panic
          THEN /\ pc' = "done"
               /\ result' = <<"Panic">>
               /\ UNCHANGED <<inpos, memory, ip, steps, reads>>
          ELSE /\ inpos' = g.pos
               /\ IF g.value # None
                  THEN /\ memory' = SetCell(memory, ptr, g.value[1])
                       /\ reads' = Append(reads, Cell(memory', ptr))
                  ELSE UNCHANGED <<memory, reads>>
               /\ ip' = ip + 1
               /\ steps' = steps + 1
               /\ UNCHANGED <<pc, result>>
    /\ UNCHANGED <<source, inputKind, input, output, basic_blocks, bb_no, ptr>>

\* mutant: the failure is returned after the instruction pointer moved on
ExecPutcIoErrorLate ==
    /\ AtInstr /\ CurInstr = "Putc" /\ steps < MaxSteps
    /\ pc' = "done"
    /\ result' = <<"IoError">>
    /\ ip' = ip + 1
    /\ UNCHANGED <<source, inputKind, input, inpos, output, basic_blocks,
                   bb_no, memory, ptr, steps, reads>>

\* Cmd::Putc, line 51, when output.write_all fails (line 145)
ExecPutcIoError ==
    /\ AtInstr /\ CurInstr = "Putc" /\ steps < MaxSteps
    /\ pc' = "done"
    /\ result' = <<"IoError">>
    /\ UNCHANGED <<source, inputKind, input, inpos, output, basic_blocks,
                   bb_no, ip, memory, ptr, steps, reads>>

\* mutant: writing a cell clears it
ExecPutcClearing ==
    /\ AtInstr /\ CurInstr = "Putc" /\ steps < MaxSteps
    /\ output' = putc(output, Cell(memory, ptr))
    /\ memory' = SetCell(memory, ptr, 0)
    /\ ip' = ip + 1
    /\ steps' = steps + 1
    /\ UNCHANGED <<source, inputKind, input, inpos, pc, result, basic_blocks,
                   bb_no, ptr, reads>>

\* Cmd::Putc, line 51, when output.write_all succeeds
ExecPutc ==
    /\ AtInstr /\ CurInstr = "Putc" /\ steps < MaxSteps
    /\ output' = putc(output, Cell(memory, ptr))
    /\ ip' = ip + 1
    /\ steps' = steps + 1
    /\ UNCHANGED <<source, inputKind, input, inpos, pc, result, basic_blocks,
                   bb_no, memory, ptr, reads>>

\* mutant: the two targets are taken the wrong way round
BranchTargetSwapped ==
    IF Cell(memory, ptr) = 0 THEN CurBlock.jnz ELSE CurBlock.jz

\* the target line 54 selects
BranchTarget == IF Cell(memory, ptr) = 0 THEN CurBlock.jz ELSE CurBlock.jnz

\* lines 54-55
Jump ==
    /\ AtBlockEnd
    /\ BranchTarget # None
    /\ bb_no' = BranchTarget[1]
    /\ ip' = 0
    /\ UNCHANGED <<source, inputKind, input, inpos, output, pc, result,
                   basic_blocks, memory, ptr, steps, reads>>

\* lines 56-60
Break ==
    /\ AtBlockEnd
    /\ BranchTarget = None
    /\ pc' = "done"
    /\ result' = <<"Ok">>
    /\ UNCHANGED <<source, inputKind, input, inpos, output, basic_blocks,
                   bb_no, ip, memory, ptr, steps, reads>>

Next ==
    \/ Compile
    \/ ExecInc
    \/ ExecDec
    \/ ExecLeft
    \/ ExecRight
    \/ ExecGetcIoError
    \/ ExecGetc
    \/ ExecPutcIoError
    \/ ExecPutc
    \/ Jump
    \/ Break

Spec == Init /\ [][Next]_vars

\* the compiler alone, on longer sources over the brackets
InitCompile ==
    /\ source \in NestSources
    /\ inputKind = "BufReader"
    /\ input = <<>>
    /\ inpos = 0
    /\ output = <<>>
    /\ pc = "compile"
    /\ result = <<>>
    /\ basic_blocks = <<>>
    /\ bb_no = 0
    /\ ip = 0
    /\ memory = <<>>
    /\ ptr = 0
    /\ steps = 0
    /\ reads = <<>>

SpecCompile == InitCompile /\ [][Compile]_vars

---------------------------------------------------------------------------
(* The bounds-checked tape policy.                                         *)
(*                                                                         *)
(* mod.rs implements the wraparound policy only.  The bounds-checked       *)
(* policy is modelled from the design document (sections 3, 4.2, 6 and 7): *)
(* a tape of 30000 cells on which a move past either end fails with        *)
(* PointerOutOfBounds naming the direction character.  Its specification   *)
(* follows the cursor alone: every step executes a MoveLeft or a MoveRight,*)
(* as the straight-line sources over `<` and `>` of every length do, so    *)
(* only pc, ptr and result change, and the other variables keep the values *)
(* the tape machine starts with.                                           *)

CHECKED_MEMORY_SIZE == 30000

\* mutant: the move wraps, as under the wraparound policy
MoveLeftCheckedWraps(p) ==
    [ok |-> TRUE, ptr |-> (p - 1) % CHECKED_MEMORY_SIZE, dir |-> "<"]

\* MoveLeft under the bounds-checked policy
MoveLeftChecked(p) ==
    IF p = 0
    THEN [ok |-> FALSE, ptr |-> p, dir |-> "<"]
    ELSE [ok |-> TRUE, ptr |-> p - 1, dir |-> "<"]

\* MoveRight under the bounds-checked policy
MoveRightChecked(p) ==
    IF p + 1 >= CHECKED_MEMORY_SIZE
    THEN [ok |-> FALSE, ptr |-> p, dir |-> ">"]
    ELSE [ok |-> TRUE, ptr |-> p + 1, dir |-> ">"]

\* the effect of a checked move on the run
CheckedMove(m) ==
    /\ pc = "exec"
    /\ IF m.ok
       THEN /\ ptr' = m.ptr
            /\ UNCHANGED <<pc, result>>
       ELSE /\ pc' = "done"
            /\ result' = <<"PointerOutOfBounds", m.dir>>
            /\ ptr' = ptr
    /\ UNCHANGED <<source, inputKind, input, inpos, output, basic_blocks,
                   bb_no, ip, memory, steps, reads>>

ExecLeftChecked == CheckedMove(MoveLeftChecked(ptr))

ExecRightChecked == CheckedMove(MoveRightChecked(ptr))

InitBoundsChecked ==
    /\ source = <<>>
    /\ inputKind = "BufReader"
    /\ input = <<>>
    /\ inpos = 0
    /\ output = <<>>
    /\ pc = "exec"
    /\ result = <<>>
    /\ basic_blocks = <<>>
    /\ bb_no = 0
    /\ ip = 0
    /\ memory = <<>>
    /\ ptr = 0
    /\ steps = 0
    /\ reads = <<>>

NextBoundsChecked ==
    \/ ExecLeftChecked
    \/ ExecRightChecked

SpecBoundsChecked == InitBoundsChecked /\ [][NextBoundsChecked]_vars

---------------------------------------------------------------------------
(* Bracket nesting, stated on the source text alone.                       *)

Count(src, i, j, c) == Cardinality({k \in i..j : src[k] = c})

\* opening minus closing brackets of src[i..j]
Net(src, i, j) == Count(src, i, j, "[") - Count(src, i, j, "]")

Balanced(src, i, j) ==
    /\ Net(src, i, j) = 0
    /\ \A k \in i..j : Net(src, i, k) >= 0

Matches(src, i, j) ==
    /\ i < j
    /\ src[i] = "["
    /\ src[j] = "]"
    /\ Balanced(src, i + 1, j - 1)

UnmatchedOpen(src, i) ==
    /\ src[i] = "["
    /\ ~ \E j \in (i + 1)..Len(src) : Matches(src, i, j)

UnmatchedClose(src, j) ==
    /\ src[j] = "]"
    /\ ~ \E i \in 1..(j - 1) : Matches(src, i, j)

HasUnmatchedOpen(src) == \E i \in 1..Len(src) : UnmatchedOpen(src, i)

HasUnmatchedClose(src) == \E j \in 1..Len(src) : UnmatchedClose(src, j)

WellNested(src) == ~ HasUnmatchedOpen(src) /\ ~ HasUnmatchedClose(src)

IsSyntaxError == result # <<>> /\ result[1] = "SyntaxError"

---------------------------------------------------------------------------
(* Claims.                                                                 *)

\* C1: a source whose brackets are well nested compiles: once line 30 has
\* run, the run is in the execution loop and has not returned SyntaxError.
C1_WellNestedCompiles ==
    (pc # "compile" /\ WellNested(source)) =>
        (~ IsSyntaxError /\ IntoBasicBlocks(source).ok)

\* a well-nested source with a loop inside a loop has been compiled
C1_Witness ==
    /\ pc = "exec"
    /\ WellNested(source)
    /\ \E k \in 1..Len(source) : Net(source, 1, k) >= 2

\* C2 as stated: any source with an opening bracket that has no matching
\* close fails with SyntaxError('[').
C2_UnmatchedOpenAlwaysReported ==
    (pc # "compile" /\ HasUnmatchedOpen(source)) =>
        result = <<"SyntaxError", "[">>

\* C2, amended: a source with an opening bracket that has no matching close,
\* and no closing bracket that has no matching open, fails with
\* SyntaxError('[').
C2_UnmatchedOpenReported ==
    (pc # "compile" /\ HasUnmatchedOpen(source)
                    /\ ~ HasUnmatchedClose(source)) =>
        result = <<"SyntaxError", "[">>

\* an unclosed bracket after a closed loop has been reported
C2_Witness ==
    /\ result = <<"SyntaxError", "[">>
    /\ HasUnmatchedOpen(source)
    /\ \E i, j \in 1..Len(source) : Matches(source, i, j)

FirstUnmatchedClose(src) ==
    CHOOSE j \in 1..Len(src) :
        /\ UnmatchedClose(src, j)
        /\ \A k \in 1..(j - 1) : ~ UnmatchedClose(src, k)

\* C3: a source with a closing bracket that has no preceding unmatched open
\* fails with SyntaxError(']'), and the text after the first such bracket
\* does not change the result.
C3_UnmatchedCloseReported ==
    (pc # "compile" /\ HasUnmatchedClose(source)) =>
        /\ result = <<"SyntaxError", "]">>
        /\ IntoBasicBlocks(SubSeq(source, 1, FirstUnmatchedClose(source)))
             = IntoBasicBlocks(source)

\* a stray closing bracket followed by an unclosed opening bracket has been
\* reported as ']'
C3_Witness ==
    /\ result = <<"SyntaxError", "]">>
    /\ HasUnmatchedClose(source)
    /\ HasUnmatchedOpen(source)

\* C4: when run returns SyntaxError, nothing was written, nothing was read
\* and no instruction was executed.
C4_SyntaxErrorBeforeExecution ==
    IsSyntaxError =>
        /\ output = <<>>
        /\ inpos = 0
        /\ reads = <<>>
        /\ steps = 0
        /\ memory = <<>>

\* a SyntaxError for a source that writes and reads before the bad bracket
C4_Witness ==
    /\ IsSyntaxError
    /\ Len(source) >= 3
    /\ source[1] = "."
    /\ source[2] = ","
    /\ input # <<>>

\* C5: a ReadByte at end of input leaves the cell as it was, does not end
\* the run, and moves on to the next instruction.  (A failing fill_buf is
\* C10's case, not end of input.)
C5_ReadAtEofIsNoOp ==
    [][(AtInstr /\ CurInstr = "Getc" /\ inpos = Len(input)
               /\ result' # <<"IoError">>) =>
          /\ result' = <<>>
          /\ pc' = "exec"
          /\ ip' = ip + 1
          /\ ptr' = ptr
          /\ Cell(memory', ptr') = Cell(memory, ptr)
          /\ inpos' = inpos]_vars

\* C6: the bytes the successful ReadBytes left in their cells are the bytes
\* of the input stream, in order and unchanged, and each consumed one byte.
C6_ReadsAreInputPrefix ==
    /\ Len(reads) <= Len(input)
    /\ reads = SubSeq(input, 1, Len(reads))
    /\ inpos = Len(reads)

\* two ReadBytes have stored two different bytes
C6_Witness ==
    /\ Len(reads) = 2
    /\ reads[1] # reads[2]
    /\ Cell(memory, ptr) = input[2]

IncOnly(src) == \A i \in 1..Len(src) : src[i] \in {"+", "[", "]", "x"}

\* C7: cells stay in 0..255; Increment maps 255 to 0 and every other value
\* to its successor; Decrement maps 0 to 255 and every other value to its
\* predecessor; on the value under the cursor the two undo each other; and
\* when every executed instruction was an Increment (of cell 0), the 256th
\* brings the cell back to its initial 0.
C7_WrappingCells ==
    /\ [](/\ \A i \in DOMAIN memory : memory[i] \in 0..(U8Modulus - 1)
          /\ WrappingSub1(WrappingAdd1(Cell(memory, ptr))) = Cell(memory, ptr)
          /\ WrappingAdd1(WrappingSub1(Cell(memory, ptr))) = Cell(memory, ptr)
          /\ (IncOnly(source) /\ pc # "compile") =>
                /\ (steps < U8Modulus => Cell(memory, ptr) = steps)
                /\ (steps = U8Modulus => Cell(memory, ptr) = 0))
    /\ [][(AtInstr /\ CurInstr = "Inc") =>
            /\ ptr' = ptr
            /\ Cell(memory', ptr) =
                 IF Cell(memory, ptr) = U8Modulus - 1 THEN 0
                 ELSE Cell(memory, ptr) + 1]_vars
    /\ [][(AtInstr /\ CurInstr = "Dec") =>
            /\ ptr' = ptr
            /\ Cell(memory', ptr) =
                 IF Cell(memory, ptr) = 0 THEN U8Modulus - 1
                 ELSE Cell(memory, ptr) - 1]_vars

\* 256 Increments, and nothing else, have run on cell 0
C7_Witness ==
    /\ IncOnly(source)
    /\ steps = U8Modulus
    /\ Cell(memory, ptr) = 0

\* C8: MoveRight at index MEMORY_SIZE - 1 lands on 0, MoveLeft at index 0
\* lands on MEMORY_SIZE - 1, and neither ends the run.
C8_CursorWraps ==
    /\ [][(AtInstr /\ CurInstr = "Right" /\ ptr = MEMORY_SIZE - 1) =>
            (ptr' = 0 /\ result' = <<>> /\ pc' = "exec" /\ ip' = ip + 1)]_vars
    /\ [][(AtInstr /\ CurInstr = "Left" /\ ptr = 0) =>
            (ptr' = MEMORY_SIZE - 1 /\ result' = <<>> /\ pc' = "exec"
                                    /\ ip' = ip + 1)]_vars

\* the cursor went left off index 0 and then right off the last index
C8_Witness ==
    /\ Len(source) >= 2
    /\ source[1] = "<"
    /\ source[2] = ">"
    /\ pc = "exec"
    /\ bb_no = 0
    /\ ip = 2
    /\ ptr = 0

CommandChars == {"+", "-", "<", ">", ",", ".", "[", "]"}

OnlyNonCommands(src) == \A i \in 1..Len(src) : src[i] \notin CommandChars

\* C9: a source without any command compiles to one terminal block without
\* instructions; the run writes nothing, reads nothing, executes nothing,
\* and its only step out of the loop is the return of Ok.
C9_NoCommandsNoEffect ==
    (OnlyNonCommands(source) /\ pc # "compile") =>
        /\ basic_blocks = <<BasicBlock(<<>>, None, None)>>
        /\ bb_no = 0
        /\ output = <<>>
        /\ inpos = 0
        /\ steps = 0
        /\ pc = "exec" => (result = <<>> /\ ~ AtInstr /\ ENABLED Break
                                         /\ ~ ENABLED Jump)
        /\ pc = "done" => result = <<"Ok">>

\* a source of non-command characters has run to Ok
C9_Witness ==
    /\ OnlyNonCommands(source)
    /\ Len(source) >= 2
    /\ result = <<"Ok">>

\* C10: run returns IoError only from a ReadByte or WriteByte, with the tape,
\* cursor, program position, sink and input position as they were before
\* that instruction; and nothing happens after it.
C10_IoErrorAborts ==
    /\ [][(result' = <<"IoError">>) =>
            /\ AtInstr
            /\ CurInstr \in {"Getc", "Putc"}
            /\ pc' = "done"
            /\ UNCHANGED <<memory, ptr, bb_no, ip, output, inpos, steps,
                           reads>>]_vars
    /\ [][result # <<"IoError">>]_vars

\* a ReadByte failed after a byte was written
C10_Witness ==
    /\ result = <<"IoError">>
    /\ output # <<>>
    /\ ip < Len(CurBlock.instrs)
    /\ CurInstr = "Getc"

\* C11: under the bounds-checked policy a MoveLeft at index 0 and a
\* MoveRight at the last index fail with PointerOutOfBounds naming the
\* direction, the cursor stays where it was, nothing follows the failure,
\* and the cursor is a valid index of the 30000-cell tape in every state.
C11_BoundsCheckedMoves ==
    /\ [](ptr \in 0..(CHECKED_MEMORY_SIZE - 1))
    /\ [][(ExecLeftChecked /\ ptr = 0) =>
            (result' = <<"PointerOutOfBounds", "<">> /\ pc' = "done"
                                                    /\ ptr' = ptr)]_vars
    /\ [][(ExecRightChecked /\ ptr = CHECKED_MEMORY_SIZE - 1) =>
            (result' = <<"PointerOutOfBounds", ">">> /\ pc' = "done"
                                                    /\ ptr' = ptr)]_vars
    /\ [][(result' # <<>>) =>
            (ptr = ptr' /\ ptr \in {0, CHECKED_MEMORY_SIZE - 1})]_vars
    /\ [][result = <<>>]_vars

\* a MoveRight failed at the last index of the tape
C11_Witness ==
    /\ result = <<"PointerOutOfBounds", ">">>
    /\ ptr = CHECKED_MEMORY_SIZE - 1

\* C12: execution starts at block 0; the block index changes only when the
\* instructions of the current block are used up; the step taken then goes
\* to the block's jz target when the cell under the cursor is zero and to
\* its jnz target otherwise, and returns Ok when that target is absent.
C12_BranchOnCurrentCell ==
    /\ [][(pc = "compile" /\ pc' = "exec") => (bb_no' = 0 /\ ip' = 0)]_vars
    /\ [][(bb_no' # bb_no) => AtBlockEnd]_vars
    /\ [][AtBlockEnd =>
            LET t == IF Cell(memory, ptr) = 0
                     THEN basic_blocks[bb_no + 1].jz
                     ELSE basic_blocks[bb_no + 1].jnz
            IN IF t = None
               THEN pc' = "done" /\ result' = <<"Ok">> /\ bb_no' = bb_no
               ELSE pc' = "exec" /\ result' = <<>> /\ bb_no' = t[1]
                                 /\ ip' = 0]_vars

\* a loop was entered on a nonzero cell and left on a zero cell, and the run
\* ended at the absent target of the last block
C12_Witness ==
    /\ result = <<"Ok">>
    /\ bb_no = 2
    /\ steps = 2
    /\ Cell(memory, ptr) = 0
    /\ Len(source) = 4
    /\ source[2] = "["
    /\ source[4] = "]"

---------------------------------------------------------------------------
(* The blocks a source stands for, stated on the source text alone.        *)

IsBracket(c) == c \in {"[", "]"}

\* number of brackets left of position p: the index of the block that the
\* bracket at p seals
BracketsBefore(src, p) ==
    Count(src, 1, p - 1, "[") + Count(src, 1, p - 1, "]")

NumBrackets(src) == BracketsBefore(src, Len(src) + 1)

\* position of the k-th bracket; 0 for k = 0, Len(src) + 1 past the last
BracketPos(src, k) ==
    IF k = 0 THEN 0
    ELSE IF k > NumBrackets(src) THEN Len(src) + 1
    ELSE CHOOSE p \in 1..Len(src) :
            IsBracket(src[p]) /\ BracketsBefore(src, p) = k - 1

\* the leaf commands of src[a..b], in order
RECURSIVE LeafCmds(_, _, _)
LeafCmds(src, a, b) ==
    IF a > b THEN <<>>
    ELSE IF IsLeaf(src[a]) THEN <<CmdOf(src[a])>> \o LeafCmds(src, a + 1, b)
    ELSE LeafCmds(src, a + 1, b)

\* the leaf commands between the k-th bracket and the next one
SegmentCmds(src, k) ==
    LeafCmds(src, BracketPos(src, k) + 1, BracketPos(src, k + 1) - 1)

\* C13: a compiled program has one block per bracket plus one; block k holds
\* the leaf commands between the k-th bracket (or the start) and the next
\* bracket (or the end), in order; and for matching brackets sealing blocks
\* i and j, block i has jnz = i+1, jz = j+1 and block j has jz = j+1,
\* jnz = i+1.
C13_BlockStructure ==
    (pc = "exec") =>
        /\ Len(basic_blocks) = NumBrackets(source) + 1
        /\ \A k \in 0..NumBrackets(source) :
              basic_blocks[k + 1].instrs = SegmentCmds(source, k)
        /\ \A p, q \in 1..Len(source) :
              Matches(source, p, q) =>
                LET i == BracketsBefore(source, p)
                    j == BracketsBefore(source, q)
                IN /\ basic_blocks[i + 1].jnz = Some(i + 1)
                   /\ basic_blocks[i + 1].jz = Some(j + 1)
                   /\ basic_blocks[j + 1].jz = Some(j + 1)
                   /\ basic_blocks[j + 1].jnz = Some(i + 1)

\* a compiled source with a loop inside a loop and a block holding two
\* different instructions
C13_Witness ==
    /\ pc = "exec"
    /\ \E k \in 1..Len(source) : Net(source, 1, k) >= 2
    /\ \E b \in 1..Len(basic_blocks) :
          /\ Len(basic_blocks[b].instrs) >= 2
          /\ basic_blocks[b].instrs[1] # basic_blocks[b].instrs[2]

ValidTarget(t) == t = None \/ t[1] \in 0..(Len(basic_blocks) - 1)

\* C14: in a compiled program every jz and jnz that is present is an index
\* of the program's block sequence, and so is bb_no during the whole run.
C14_TargetsAndBlockIndexValid ==
    (pc # "compile" /\ ~ IsSyntaxError) =>
        /\ \A b \in 1..Len(basic_blocks) :
              ValidTarget(basic_blocks[b].jz) /\ ValidTarget(basic_blocks[b].jnz)
        /\ bb_no \in 0..(Len(basic_blocks) - 1)

\* the run has jumped into the last of five blocks
C14_Witness ==
    /\ pc = "exec"
    /\ Len(basic_blocks) = 5
    /\ bb_no = 4

\* the cells outside S hold the same values before and after the step
CellsKeptOutside(S) ==
    \A i \in ((DOMAIN memory) \cup (DOMAIN memory')) \ S :
        Cell(memory', i) = Cell(memory, i)

\* C15: only MoveLeft and MoveRight change the cursor; Increment, Decrement
\* and ReadByte keep the cursor and every cell but the one under it;
\* WriteByte and the branch at the end of a block keep the cursor and every
\* cell.
C15_FrameOfEachStep ==
    /\ [][(ptr' # ptr) => (AtInstr /\ CurInstr \in {"Left", "Right"})]_vars
    /\ [][(AtInstr /\ CurInstr \in {"Inc", "Dec", "Getc"}) =>
            (ptr' = ptr /\ CellsKeptOutside({ptr}))]_vars
    /\ [][(AtInstr /\ CurInstr = "Putc") =>
            (ptr' = ptr /\ CellsKeptOutside({}))]_vars
    /\ [][AtBlockEnd => (ptr' = ptr /\ CellsKeptOutside({}))]_vars

\* a nonzero cell was written out, the cursor moved right, and a second
\* cell was changed
C15_Witness ==
    /\ output # <<>>
    /\ output[1] # 0
    /\ ptr = 1
    /\ Cell(memory, 0) # 0
    /\ Cell(memory, 1) # 0

IsCommand(c) == c \in CommandChars

\* the source with every character that is not a command removed
StripNonCommands(src) == SelectSeq(src, IsCommand)

\* C16: compiling a source gives what compiling it without its non-command
\* characters gives: the same blocks, or the same SyntaxError.  (The run
\* reads the source only through the blocks, so the two runs agree.)
C16_NonCommandsIgnored ==
    (pc # "compile") =>
        LET r == IntoBasicBlocks(StripNonCommands(source))
        IN IF r.ok
           THEN ~ IsSyntaxError /\ basic_blocks = r.blocks
           ELSE result = <<"SyntaxError", r.err>>

\* a source with a non-command character between its commands has run to
\* the end and written a byte
C16_Witness ==
    /\ result = <<"Ok">>
    /\ Len(source) = 4
    /\ source[2] = "x"
    /\ Len(StripNonCommands(source)) = 3
    /\ output # <<>>
    /\ steps = 3

---------------------------------------------------------------------------
(* Direct interpretation of the command stream.                            *)

\* the first position at or after p that holds a command; Len(src) + 1 when
\* there is none
NextCmd(src, p) ==
    IF \E q \in p..Len(src) : IsCommand(src[q])
    THEN CHOOSE q \in p..Len(src) :
            /\ IsCommand(src[q])
            /\ \A r \in p..(q - 1) : ~ IsCommand(src[r])
    ELSE Len(src) + 1

\* the position of the n-th command at or after p
RECURSIVE NthCmd(_, _, _)
NthCmd(src, p, n) ==
    IF n <= 1 \/ NextCmd(src, p) > Len(src)
    THEN NextCmd(src, p)
    ELSE NthCmd(src, NextCmd(src, p) + 1, n - 1)

\* the bracket matching the bracket at p
MatchOf(src, p) ==
    IF src[p] = "["
    THEN CHOOSE q \in 1..Len(src) : Matches(src, p, q)
    ELSE CHOOSE q \in 1..Len(src) : Matches(src, q, p)

\* where a direct interpreter standing at the command at p goes next, the
\* cell under the cursor holding `cell` once the command has been executed:
\* `[` jumps past its matching `]` on zero, `]` jumps back to just after its
\* matching `[` on nonzero, everything else goes to the next command
DirectNextPos(src, p, cell) ==
    IF src[p] = "[" /\ cell = 0 THEN NextCmd(src, MatchOf(src, p) + 1)
    ELSE IF src[p] = "]" /\ cell # 0 THEN NextCmd(src, MatchOf(src, p) + 1)
    ELSE NextCmd(src, p + 1)

\* the position in the source the block machine stands at: block bb_no
\* starts after the bb_no-th bracket, and ip commands of it are done
SourcePos == NthCmd(source, BracketPos(source, bb_no) + 1, ip + 1)

\* C17: the block machine simulates the direct interpreter.  At every
\* instruction it stands at a leaf command of the source and executes that
\* command; at the end of a block it stands at a bracket or at the end of
\* the source; it starts at the first command; every step moves it where
\* the direct interpreter goes from there, a bracket step changing nothing
\* else; and it returns Ok exactly at the end of the source.
C17_BlocksSimulateDirectInterpreter ==
    /\ [](pc = "exec" =>
            /\ WellNested(source)
            /\ AtInstr => /\ SourcePos <= Len(source)
                          /\ IsLeaf(source[SourcePos])
                          /\ CurInstr = CmdOf(source[SourcePos])
            /\ AtBlockEnd => \/ SourcePos = Len(source) + 1
                             \/ IsBracket(source[SourcePos]))
    /\ [][(pc = "compile" /\ pc' = "exec") =>
            SourcePos' = NextCmd(source, 1)]_vars
    /\ [][(pc = "exec" /\ pc' = "exec") =>
            /\ SourcePos' =
                 DirectNextPos(source, SourcePos, Cell(memory', ptr'))
            /\ AtBlockEnd => UNCHANGED <<memory, ptr, output, inpos>>]_vars
    /\ [][(pc = "exec" /\ SourcePos = Len(source) + 1) =>
            (result' = <<"Ok">> /\ UNCHANGED <<memory, ptr, output, inpos>>)]_vars
    /\ [][(result' = <<"Ok">>) => SourcePos = Len(source) + 1]_vars

\* a loop body ran twice: the run is back in the loop's block after two
\* passes over it
C17_Witness ==
    /\ pc = "exec"
    /\ Len(source) = 4
    /\ source[2] = "["
    /\ source[4] = "]"
    /\ bb_no = 1
    /\ ip = 0
    /\ steps = 3

\* C18: in a compiled program the last block has no target and every other
\* block has both; so when run has returned Ok, it stands at the end of the
\* last block, which is the end of the source.
C18_OnlyLastBlockTerminal ==
    (pc # "compile" /\ ~ IsSyntaxError) =>
        LET n == Len(basic_blocks)
        IN /\ n >= 1
           /\ basic_blocks[n].jz = None
           /\ basic_blocks[n].jnz = None
           /\ \A b \in 1..(n - 1) :
                 basic_blocks[b].jz # None /\ basic_blocks[b].jnz # None
           /\ (result = <<"Ok">>) =>
                 /\ bb_no = n - 1
                 /\ ip = Len(basic_blocks[n].instrs)
                 /\ SourcePos = Len(source) + 1

\* a run over a loop that was skipped on a zero cell has returned Ok after
\* executing the instruction behind the loop
C18_Witness ==
    /\ result = <<"Ok">>
    /\ Len(basic_blocks) = 3
    /\ Cell(memory, ptr) = 0
    /\ steps = 1
    /\ source[1] = "["

\* C19: the cursor, and every index of a written cell, is in
\* 0..MEMORY_SIZE - 1 in every state of a run.
C19_CursorInTape ==
    /\ ptr \in 0..(MEMORY_SIZE - 1)
    /\ \A i \in DOMAIN memory : i \in 0..(MEMORY_SIZE - 1)

\* the cursor left the tape on the left, wrote the last cell, came back over
\* the right edge and wrote cell 0
C19_Witness ==
    /\ ptr = 0
    /\ steps = 4
    /\ source[1] = "<"
    /\ Cell(memory, MEMORY_SIZE - 1) # 0
    /\ Cell(memory, 0) # 0

\* C20: a ReadByte whose fill_buf succeeded asks the input to consume no
\* more bytes than fill_buf returned, and does not panic.
C20_ConsumeWithinBuffer ==
    [][(AtInstr /\ CurInstr = "Getc" /\ result' # <<"IoError">>) =>
          /\ getc(inputKind, input, inpos).requested
                <= Len(FillBuf(input, inpos))
          /\ result' # <<"Panic">>]_vars

====
